---- MODULE Spec2Model ----
(***************************************************************************)
(* A model of bubble_plot_app.py: the column resolver (auto_pick_column),  *)
(* the percent/ratio coercion (parse_percent_series), the filtering,       *)
(* ranking and ordering done by generate_bubble_plot, and its legend size  *)
(* selection (round_to_nearest_ten).                                       *)
(*                                                                         *)
(* Numbers are fixed-point integers:                                       *)
(*   gene ratio / percent cells   in units of 1/1000  (0.2 is 200)         *)
(*   significance cells           in units of 1/100   (0.05 is 5)          *)
(*   counts                       in units of 1                            *)
(* An optional value (a pandas cell that may be NaN) is a sequence of      *)
(* length at most one: << >> is NaN / None, <<v>> is the number v.         *)
(* A text is a sequence of one-character strings.                          *)
(***************************************************************************)
EXTENDS Integers, Sequences, FiniteSets, TLC

VARIABLES
    pc,            \* which scenario is loaded and whether its call has returned
    columns,       \* auto_pick_column: the available column names
    candidates,    \* auto_pick_column: the keywords, in priority order
    picked,        \* auto_pick_column: the value returned
    series,        \* parse_percent_series: the raw cells of the column
    ratio,         \* parse_percent_series: the series returned
    counts,        \* legend: Count_num of the retained rows
    legend_sizes,  \* legend: the list of sizes shown
    df,            \* generate_bubble_plot: the caller's table
    args,          \* generate_bubble_plot: top_n, sig_cutoff, sort_mode of the call
    out            \* generate_bubble_plot: what the call produced

vars == <<pc, columns, candidates, picked, series, ratio, counts, legend_sizes,
          df, args, out>>

----------------------------------------------------------------------------
(* Bounds *)

MaxCols == 2
MaxKeys == 2
MaxLen == 3
MaxRows == 3
MaxTopN == 2
MaxLegendRows == 3
MaxCount == 15

----------------------------------------------------------------------------
(* Optional values and small helpers *)

NaN == << >>
Num(v) == <<v>>
IsNa(c) == c = << >>
Val(c) == c[1]

Min(S) == CHOOSE x \in S : \A y \in S : x <= y
Max(S) == CHOOSE x \in S : \A y \in S : x >= y

SeqsUpTo(S, n) == UNION {[1..k -> S] : k \in 0..n}

Range(s) == {s[i] : i \in DOMAIN s}

----------------------------------------------------------------------------
(* auto_pick_column *)

\* str.lower() on one character
LowerChar(ch) ==
    CASE ch = "A" -> "a"
      [] ch = "B" -> "b"
      [] OTHER -> ch

\* c.lower()
Lower(s) == [i \in DOMAIN s |-> LowerChar(s[i])]

\* key in s  (Python substring test; the empty key is in every string)
Contains(s, key) ==
    \E i \in 0..(Len(s) - Len(key)) : SubSeq(s, i + 1, i + Len(key)) = key

\* the inner loop: for c in columns[j:]: if key in c.lower(): return c
RECURSIVE ScanColumns(_, _, _)
ScanColumns(cols, key, j) ==
    IF j > Len(cols) THEN NaN
    ELSE IF Contains(Lower(cols[j]), key) THEN Num(cols[j])
    ELSE ScanColumns(cols, key, j + 1)

\* the outer loop: for key in candidates[k:]; falls through to return None
RECURSIVE ScanKeys(_, _, _)
ScanKeys(cols, cands, k) ==
    IF k > Len(cands) THEN NaN
    ELSE LET hit == ScanColumns(cols, cands[k], 1)
         IN  IF ~IsNa(hit) THEN hit ELSE ScanKeys(cols, cands, k + 1)

\* a plausible slip: the loops nested the other way round (columns outside)
RECURSIVE ScanColumnsFirst(_, _, _)
ScanColumnsFirst(cols, cands, j) ==
    IF j > Len(cols) THEN NaN
    ELSE IF \E k \in DOMAIN cands : Contains(Lower(cols[j]), cands[k])
         THEN Num(cols[j])
         ELSE ScanColumnsFirst(cols, cands, j + 1)

AutoPickColumnsFirst(cols, cands) == ScanColumnsFirst(cols, cands, 1)

auto_pick_column(cols, cands) == ScanKeys(cols, cands, 1)

\* Column names as a spreadsheet has them (mixed case), keywords as the
\* caller writes them (lowercase, plus one uppercase keyword).
NameChars == {"a", "B"}
ColumnNames == {<<x>> : x \in NameChars} \cup {<<x, y>> : x \in NameChars, y \in NameChars}
KeyChars == {"a", "b"}
Keywords == {<<x>> : x \in KeyChars} \cup {<<x, y>> : x \in KeyChars, y \in KeyChars}
               \cup {<<"B">>}

----------------------------------------------------------------------------
(* parse_percent_series *)

\* A raw cell of a numeric column, as read from the spreadsheet:
\*   kind "number"        a number held by pandas, or NaN (num = NaN)
\*   kind "numeric_text"  a text that is a number and nothing else ("45")
\*   kind "text"          any other text ("45%", "n/a"); num is its first
\*                        signed-decimal substring, NaN when it has none
RawCell(kind, n) == [kind |-> kind, num |-> n]

\* pd.api.types.is_numeric_dtype(s): every cell is a number or NaN
IsNumericDtype(s) == \A i \in DOMAIN s : s[i].kind = "number"

\* s.astype(str).str.extract(<first number>)[0], then pd.to_numeric: the first
\* number in the cell's text (str(NaN) = "nan" holds none; the text of a
\* number holds that number)
ExtractNumber(cell) == cell.num

\* pd.to_numeric(x, errors="coerce") on one cell: a text that is not a
\* number as a whole becomes NaN
PdToNumeric(cell) == IF cell.kind = "text" THEN NaN ELSE cell.num

\* lines 12-16: s_num
ToNumeric(s) ==
    IF ~IsNumericDtype(s)
    THEN [i \in DOMAIN s |-> ExtractNumber(s[i])]
    ELSE [i \in DOMAIN s |-> PdToNumeric(s[i])]

\* s_num.dropna()
DropNa(s) == SelectSeq(s, LAMBDA c : ~IsNa(c))

\* (valid > 1).mean() > 0.5, with 1.0 = 1000 units: k/n > 1/2 iff 2k > n
MostlyAboveOne(valid) ==
    2 * Cardinality({i \in DOMAIN valid : Val(valid[i]) > 1000}) > Len(valid)

\* a plausible slip: a percentage divided by ten
DivideBy10(s) ==
    [i \in DOMAIN s |-> IF IsNa(s[i]) THEN NaN ELSE Num(Val(s[i]) \div 10)]

\* a plausible slip: the decision taken cell by cell instead of once
DividePerCell(s) ==
    [i \in DOMAIN s |-> IF IsNa(s[i]) THEN NaN
                        ELSE IF Val(s[i]) > 1000 THEN Num(Val(s[i]) \div 100)
                        ELSE s[i]]

\* s_num / 100.0: NaN stays NaN. The cells of the model are multiples of
\* 0.1 (100 units), so the quotient is exact in units of 1/1000.
DivideBy100(s) ==
    [i \in DOMAIN s |-> IF IsNa(s[i]) THEN NaN ELSE Num(Val(s[i]) \div 100)]

parse_percent_series(s) ==
    LET s_num == ToNumeric(s)
        valid == DropNa(s_num)
    IN  IF Len(valid) = 0 THEN s_num
        ELSE IF MostlyAboveOne(valid) THEN DivideBy100(s_num)
        ELSE s_num

\* 0.2, 1.0, 1.1, 45, 60, 100
PercentNumbers == {200, 1000, 1100, 45000, 60000, 100000}

PercentCells ==
    {RawCell("number", NaN), RawCell("text", NaN), RawCell("text", Num(45000))}
        \cup {RawCell("number", Num(v)) : v \in PercentNumbers}

----------------------------------------------------------------------------
(* round_to_nearest_ten and the legend sizes *)

\* Legend candidates are kept in halves (h stands for h/2), since the middle
\* of np.linspace(min, max, 3) can be a half-integer.

\* a plausible slip: ties rounded up (round half up)
RoundHalfUp(n, d) ==
    LET q == n \div d
        r == n % d
    IN  IF 2 * r < d THEN q ELSE q + 1

\* a plausible slip: truncation instead of rounding
RoundDown(n, d) == n \div d

\* Python 3 round(): to the nearest integer, ties to the even one.
\* RoundHalfEven(n, d) = round(n / d) for d > 0.
RoundHalfEven(n, d) ==
    LET q == n \div d
        r == n % d
    IN  IF 2 * r < d THEN q
        ELSE IF 2 * r > d THEN q + 1
        ELSE IF q % 2 = 0 THEN q ELSE q + 1

\* int(round(v / 10.0) * 10) for v = h/2
RoundToTen(h) == RoundHalfEven(h, 20) * 10

\* round_to_nearest_ten(values)
round_to_nearest_ten(hs) == [i \in DOMAIN hs |-> RoundToTen(hs[i])]

\* np.linspace(lo, hi, num=3): lo, lo + (hi - lo)/2, hi  -- in halves
Linspace3(lo, hi) == <<2 * lo, 2 * lo + (hi - lo), 2 * hi>>

\* sorted(set(...))
RECURSIVE SortedSeqOf(_)
SortedSeqOf(S) ==
    IF S = {} THEN << >>
    ELSE LET m == Min(S) IN <<m>> \o SortedSeqOf(S \ {m})

\* a plausible slip: the single-count case left unrounded
LegendCandidatesRaw(cs) ==
    LET min_count == Min(Range(cs))
        max_count == Max(Range(cs))
    IN  IF min_count # max_count
        THEN round_to_nearest_ten(Linspace3(min_count, max_count))
        ELSE <<min_count>>

\* lines 104-106
LegendCandidates(cs) ==
    LET min_count == Min(Range(cs))
        max_count == Max(Range(cs))
    IN  round_to_nearest_ten(IF min_count # max_count
                             THEN Linspace3(min_count, max_count)
                             ELSE <<2 * min_count>>)

\* lines 104-109, for the non-empty Count_num column cs of the retained rows
LegendSizes(cs) ==
    LET sizes == SortedSeqOf(Range(LegendCandidates(cs)))
    IN  IF Len(sizes) = 0 THEN <<10>> ELSE sizes

LegendCounts == (0..MaxCount) \cup {50, 95}

----------------------------------------------------------------------------
(* generate_bubble_plot: the table and its working copy *)

\* The column bindings of the call (pathway_col, percent_col, sig_col,
\* count_col) are the columns "term", "pct", "sig" and "count".
\* A table is [columns |-> names in order, rows |-> records keyed by column].
\* Objects live in a two-cell heap: "caller" is the table the caller passed
\* in, "local" is the object df.copy() creates.

EmptyTable == [columns |-> << >>, rows |-> << >>]

\* a plausible slip: no copy taken, the local name aliases the caller's table
DfAlias(heap, ref) == [heap |-> heap, ref |-> ref]

\* line 55: df = df.copy()
DfCopy(heap, ref) ==
    [heap |-> [heap EXCEPT !["local"] = heap[ref]], ref |-> "local"]

\* df[name] = values on one table: the column is added (or overwritten)
WithColumn(tbl, name, values) ==
    [columns |-> IF name \in Range(tbl.columns) THEN tbl.columns
                 ELSE Append(tbl.columns, name),
     rows |-> [i \in DOMAIN tbl.rows |-> (name :> values[i]) @@ tbl.rows[i]]]

\* df[name] = values through a reference
SetColumn(heap, ref, name, values) ==
    [heap EXCEPT ![ref] = WithColumn(heap[ref], name, values)]

Column(tbl, name) == [i \in DOMAIN tbl.rows |-> tbl.rows[i][name]]

\* lines 55-59: the copy and the three derived columns
DeriveColumns(heap0) ==
    LET c  == DfCopy(heap0, "caller")
        h1 == SetColumn(c.heap, c.ref, "GeneRatio",
                        parse_percent_series(Column(c.heap[c.ref], "pct")))
        h2 == SetColumn(h1, c.ref, "Sig_num",
                        [i \in DOMAIN h1[c.ref].rows |-> PdToNumeric(h1[c.ref].rows[i].sig)])
        h3 == SetColumn(h2, c.ref, "Count_num",
                        [i \in DOMAIN h2[c.ref].rows |-> PdToNumeric(h2[c.ref].rows[i].count)])
    IN  [heap |-> h3, ref |-> c.ref]

\* The frames made after line 59 are new objects; a frame is the sequence of
\* its rows, each carrying idx, its pandas index label (the row's position
\* in the caller's table).
Frame(tbl) == [i \in DOMAIN tbl.rows |-> ("idx" :> i) @@ tbl.rows[i]]

----------------------------------------------------------------------------
(* generate_bubble_plot: filtering, ranking, ordering *)

\* line 61: df.dropna(subset=["GeneRatio", "Sig_num", "Count_num", pathway_col])
DropNaRows(f) ==
    SelectSeq(f, LAMBDA r : ~IsNa(r.GeneRatio) /\ ~IsNa(r.Sig_num)
                            /\ ~IsNa(r.Count_num) /\ ~IsNa(r.term))

\* a plausible slip: ">=" for ">" in the positivity filter
PositiveRowsInclusive(f) == SelectSeq(f, LAMBDA r : Val(r.Sig_num) >= 0)

\* line 65: df[df["Sig_num"] > 0]
PositiveRows(f) == SelectSeq(f, LAMBDA r : Val(r.Sig_num) > 0)

\* line 70: df[df["Sig_num"] <= sig_cutoff]
CutoffRows(f, sig_cutoff) == SelectSeq(f, LAMBDA r : Val(r.Sig_num) <= sig_cutoff)

\* the frame without its k-th row
RemoveAt(f, k) == SubSeq(f, 1, k - 1) \o SubSeq(f, k + 1, Len(f))

\* a plausible slip: keep="last", the latest of equal values taken first
RECURSIVE NSmallestKeepLast(_, _)
NSmallestKeepLast(f, n) ==
    IF n <= 0 \/ Len(f) = 0 THEN << >>
    ELSE LET lo == Min({Val(f[i].Sig_num) : i \in DOMAIN f})
             k  == Max({i \in DOMAIN f : Val(f[i].Sig_num) = lo})
         IN  <<f[k]>> \o NSmallestKeepLast(RemoveAt(f, k), n - 1)

\* line 74: df.nsmallest(top_n, "Sig_num"), keep="first" by default: the n
\* rows of smallest Sig_num in ascending order, the earliest of equal values
\* first
RECURSIVE NSmallest(_, _)
NSmallest(f, n) ==
    IF n <= 0 \/ Len(f) = 0 THEN << >>
    ELSE LET lo == Min({Val(f[i].Sig_num) : i \in DOMAIN f})
             k  == Min({i \in DOMAIN f : Val(f[i].Sig_num) = lo})
         IN  <<f[k]>> \o NSmallest(RemoveAt(f, k), n - 1)

\* ord() of a character
CharCode(ch) ==
    CASE ch = "A" -> 65
      [] ch = "B" -> 66
      [] ch = "a" -> 97
      [] ch = "b" -> 98

\* Python's s <= t on str: lexicographic by code point
RECURSIVE TextLeq(_, _)
TextLeq(s, t) ==
    IF Len(s) = 0 THEN TRUE
    ELSE IF Len(t) = 0 THEN FALSE
    ELSE IF CharCode(Head(s)) # CharCode(Head(t))
         THEN CharCode(Head(s)) < CharCode(Head(t))
         ELSE TextLeq(Tail(s), Tail(t))

\* whether row r may stand before row q under the sort key of sort_mode
KeyLeq(sort_mode, r, q) ==
    CASE sort_mode = "GeneRatio"    -> Val(r.GeneRatio) <= Val(q.GeneRatio)
      [] sort_mode = "Significance" -> Val(r.Sig_num) <= Val(q.Sig_num)
      [] sort_mode = "Alphabetical" -> TextLeq(Val(r.term), Val(q.term))
      [] OTHER -> TRUE

Perms(n) == {p \in [1..n -> 1..n] : \A i, j \in 1..n : i # j => p[i] # p[j]}

\* a plausible slip: ascending=False
SortValuesDescending(f, sort_mode) ==
    IF sort_mode \notin {"GeneRatio", "Significance", "Alphabetical"} THEN {f}
    ELSE {[i \in DOMAIN f |-> f[p[i]]] : p \in
            {q \in Perms(Len(f)) :
                \A i, j \in DOMAIN f : i < j => KeyLeq(sort_mode, f[q[j]], f[q[i]])}}

\* lines 76-81: df.sort_values(by=key, ascending=True). pandas sorts with
\* quicksort, which promises no order among rows of equal key: every
\* ascending arrangement of the rows is a possible result. Any other
\* sort_mode leaves the frame as it is.
SortValues(f, sort_mode) ==
    IF sort_mode \notin {"GeneRatio", "Significance", "Alphabetical"} THEN {f}
    ELSE {[i \in DOMAIN f |-> f[p[i]]] : p \in
            {q \in Perms(Len(f)) :
                \A i, j \in DOMAIN f : i < j => KeyLeq(sort_mode, f[q[i]], f[q[j]])}}

\* lines 88-90: matplotlib places the y categories df[pathway_col].astype(str)
\* in the order of their first appearance, each once
RECURSIVE CategoryAxis(_)
CategoryAxis(f) ==
    IF Len(f) = 0 THEN << >>
    ELSE LET before == CategoryAxis(SubSeq(f, 1, Len(f) - 1))
             t      == Val(f[Len(f)].term)
         IN  IF t \in Range(before) THEN before ELSE Append(before, t)

\* The result of a call. status is "chart" or the failure raised:
\*   "EmptyDataset"            line 63
\*   "NonPositiveSignificance" line 67
\*   "CutoffTooStrict"         line 72, its message carrying sig_cutoff
Failure(status, message) ==
    [status |-> status, message |-> message, plotted |-> << >>,
     axis |-> << >>, legend |-> << >>]

Chart(f) ==
    [status |-> "chart", message |-> << >>, plotted |-> f,
     axis |-> CategoryAxis(f),
     legend |-> LegendSizes([i \in DOMAIN f |-> Val(f[i].Count_num)])]

\* lines 61-138 on the frame with its derived columns: the set of results
\* the call can have (one, but for the order of equal sort keys)
FilterRankPlot(f0, top_n, sig_cutoff, sort_mode) ==
    LET cleaned  == DropNaRows(f0)
        positive == PositiveRows(cleaned)
        passed   == IF IsNa(sig_cutoff) THEN positive
                    ELSE CutoffRows(positive, Val(sig_cutoff))
    IN  IF Len(cleaned) = 0 THEN {Failure("EmptyDataset", << >>)}
        ELSE IF Len(positive) = 0 THEN {Failure("NonPositiveSignificance", << >>)}
        ELSE IF Len(passed) = 0 THEN {Failure("CutoffTooStrict", sig_cutoff)}
        ELSE {Chart(f) : f \in SortValues(NSmallest(passed, top_n), sort_mode)}

----------------------------------------------------------------------------
(* Inputs of generate_bubble_plot *)

\* The usual row: term "a", gene ratio 0.5, significance 0.01, count 12.
BaseRow ==
    [term |-> Num(<<"a">>), pct |-> RawCell("number", Num(500)),
     sig |-> RawCell("number", Num(1)), count |-> RawCell("number", Num(12))]

TermCells == {NaN, Num(<<"a">>), Num(<<"B">>)}
\* missing, 0.5, 50
PctCells == {RawCell("number", NaN), RawCell("number", Num(500)),
             RawCell("number", Num(50000))}
\* missing, a text such as "<0.05", 0, 0.01, 0.05, 0.2
SigCells == {RawCell("number", NaN), RawCell("text", Num(5))}
               \cup {RawCell("number", Num(v)) : v \in {0, 1, 5, 20}}
CountCells == {RawCell("number", NaN), RawCell("number", Num(12))}

\* The rows of the model differ from the usual row in at most one cell.
InputRows ==
    {r \in [term : TermCells, pct : PctCells, sig : SigCells, count : CountCells] :
        Cardinality({c \in {"term", "pct", "sig", "count"} : r[c] # BaseRow[c]}) <= 1}

InputColumns == <<"term", "pct", "sig", "count">>

Tables == {[columns |-> InputColumns, rows |-> rs] : rs \in SeqsUpTo(InputRows, MaxRows)}

\* st.number_input(..., min_value=0.0) or None: no cutoff, or 0.05
Cutoffs == {NaN, Num(5)}

SortModes == {"GeneRatio", "Significance", "Alphabetical"}

NoArgs == [top_n |-> 0, sig_cutoff |-> NaN, sort_mode |-> ""]

----------------------------------------------------------------------------
(* The state machines *)

\* --- the plot pipeline: a table is uploaded, then rendered

Init ==
    /\ pc = "uploaded"
    /\ df \in Tables
    /\ args = NoArgs /\ out = Failure("", << >>)
    /\ columns = << >> /\ candidates = << >> /\ picked = NaN
    /\ series = << >> /\ ratio = << >>
    /\ counts = << >> /\ legend_sizes = << >>

\* lines 34-138: one call of generate_bubble_plot on the caller's table
GenerateBubblePlot ==
    /\ pc = "uploaded"
    /\ \E top_n \in 1..MaxTopN, sig_cutoff \in Cutoffs, sort_mode \in SortModes :
         LET d == DeriveColumns([caller |-> df, local |-> EmptyTable])
         IN  /\ \E res \in FilterRankPlot(Frame(d.heap[d.ref]), top_n, sig_cutoff, sort_mode) :
                    out' = res
             /\ df' = d.heap["caller"]
             /\ args' = [top_n |-> top_n, sig_cutoff |-> sig_cutoff, sort_mode |-> sort_mode]
    /\ pc' = "rendered"
    /\ UNCHANGED <<columns, candidates, picked, series, ratio, counts, legend_sizes>>

Next == GenerateBubblePlot

Spec == Init /\ [][Next]_vars

\* --- the column resolver

InitPick ==
    /\ pc = "columns"
    /\ columns \in SeqsUpTo(ColumnNames, MaxCols)
    /\ candidates \in SeqsUpTo(Keywords, MaxKeys)
    /\ picked = NaN
    /\ series = << >> /\ ratio = << >>
    /\ counts = << >> /\ legend_sizes = << >>
    /\ df = EmptyTable /\ args = NoArgs /\ out = Failure("", << >>)

\* lines 27-32
AutoPickColumn ==
    /\ pc = "columns"
    /\ picked' = auto_pick_column(columns, candidates)
    /\ pc' = "picked"
    /\ UNCHANGED <<columns, candidates, series, ratio, counts, legend_sizes, df, args, out>>

NextPick == AutoPickColumn

SpecPick == InitPick /\ [][NextPick]_vars

\* --- the percent / ratio coercion

InitPercent ==
    /\ pc = "series"
    /\ series \in SeqsUpTo(PercentCells, MaxLen)
    /\ ratio = << >>
    /\ columns = << >> /\ candidates = << >> /\ picked = NaN
    /\ counts = << >> /\ legend_sizes = << >>
    /\ df = EmptyTable /\ args = NoArgs /\ out = Failure("", << >>)

\* lines 11-25
ParsePercentSeries ==
    /\ pc = "series"
    /\ ratio' = parse_percent_series(series)
    /\ pc' = "parsed"
    /\ UNCHANGED <<columns, candidates, picked, series, counts, legend_sizes, df, args, out>>

NextPercent == ParsePercentSeries

SpecPercent == InitPercent /\ [][NextPercent]_vars

\* --- the legend sizes of a non-empty set of retained rows

InitLegend ==
    /\ pc = "counts"
    /\ counts \in SeqsUpTo(LegendCounts, MaxLegendRows) \ {<< >>}
    /\ legend_sizes = << >>
    /\ columns = << >> /\ candidates = << >> /\ picked = NaN
    /\ series = << >> /\ ratio = << >>
    /\ df = EmptyTable /\ args = NoArgs /\ out = Failure("", << >>)

\* lines 104-109
ComputeLegend ==
    /\ pc = "counts"
    /\ legend_sizes' = LegendSizes(counts)
    /\ pc' = "legend"
    /\ UNCHANGED <<columns, candidates, picked, series, ratio, counts, df, args, out>>

NextLegend == ComputeLegend

SpecLegend == InitLegend /\ [][NextLegend]_vars

----------------------------------------------------------------------------
(* Properties of auto_pick_column, under SpecPick *)

\* key occurs in s as a contiguous run of characters
IsSubstring(key, s) ==
    \E a \in 0..Len(s) : \E b \in a..Len(s) :
        /\ b - a = Len(key)
        /\ \A i \in 1..Len(key) : s[a + i] = key[i]

\* the positions of the keywords found in at least one lowercased column name
MatchingKeys ==
    {k \in DOMAIN candidates :
        \E j \in DOMAIN columns : IsSubstring(candidates[k], Lower(columns[j]))}

\* C4: auto_pick_column returns the first column, in original order, whose
\* lowercased name contains the earliest keyword of candidates that any
\* lowercased column name contains; it returns None exactly when no keyword
\* is contained in any lowercased column name.
C4_KeywordPriorityThenColumnOrder ==
    pc = "picked" =>
        IF MatchingKeys = {} THEN picked = NaN
        ELSE LET k == Min(MatchingKeys)
                 j == Min({i \in DOMAIN columns :
                             IsSubstring(candidates[k], Lower(columns[i]))})
             IN  picked = Num(columns[j])

\* The column "B" is picked for the first keyword "b", over the earlier
\* column "a" that only the second keyword matches.
C4_Witness ==
    /\ pc = "picked"
    /\ columns = << <<"a">>, <<"B">> >>
    /\ candidates = << <<"b">>, <<"a">> >>
    /\ picked = Num(<<"B">>)

----------------------------------------------------------------------------
(* Properties of parse_percent_series, under SpecPercent *)

\* the positions of the non-missing values of the column
NonMissing == {i \in DOMAIN series : ~IsNa(series[i].num)}

\* strictly more than half of the non-missing values exceed 1
MajorityAboveOne ==
    2 * Cardinality({i \in NonMissing : Val(series[i].num) > 1000}) > Cardinality(NonMissing)

\* C3: one decision for the whole column: when strictly more than half of
\* the non-missing values exceed 1 every non-missing output is its input
\* divided by 100, otherwise every output equals its input; values missing on
\* input are missing on output; 45, 60, 0.2 becomes 0.45, 0.60, 0.002.
C3_WholeColumnDecision ==
    pc = "parsed" =>
        /\ Len(ratio) = Len(series)
        /\ \A i \in DOMAIN series : IsNa(series[i].num) => IsNa(ratio[i])
        /\ MajorityAboveOne =>
             \A i \in NonMissing : ~IsNa(ratio[i]) /\ 100 * Val(ratio[i]) = Val(series[i].num)
        /\ ~MajorityAboveOne =>
             \A i \in NonMissing : ratio[i] = series[i].num
        /\ series = <<RawCell("number", Num(45000)), RawCell("number", Num(60000)),
                      RawCell("number", Num(200))>>
             => ratio = <<Num(450), Num(600), Num(2)>>

\* A column with a missing cell, 45 and 0.2 and 1.1: two of three non-missing
\* values exceed 1, so 0.2 is divided as well.
C3_Witness ==
    /\ pc = "parsed"
    /\ Len(series) = 3
    /\ MajorityAboveOne
    /\ \E i \in DOMAIN series : ~IsNa(series[i].num) /\ Val(series[i].num) <= 1000
                                 /\ ratio[i] = Num(2)

----------------------------------------------------------------------------
(* Properties of the legend sizes, under SpecLegend *)

MinCount == Min(Range(counts))
MaxOfCounts == Max(Range(counts))

Abs(x) == IF x < 0 THEN -x ELSE x

\* e is a multiple of ten nearest to h/2 (one of the two, at a tie)
IsNearestTen(e, h) == e % 10 = 0 /\ Abs(2 * e - h) <= 10

\* min, (min + max)/2 and max, in halves
LegendPoints == {2 * MinCount, MinCount + MaxOfCounts, 2 * MaxOfCounts}

\* C5: the legend of a non-empty set of retained rows is never empty, has at
\* most three entries, is strictly ascending, holds multiples of ten only,
\* and when min # max its entries are exactly the roundings of min,
\* (min + max)/2 and max to a nearest multiple of ten.
C5_LegendShape ==
    pc = "legend" =>
        /\ Len(legend_sizes) >= 1
        /\ Len(legend_sizes) <= 3
        /\ \A i, j \in DOMAIN legend_sizes : i < j => legend_sizes[i] < legend_sizes[j]
        /\ \A i \in DOMAIN legend_sizes : legend_sizes[i] % 10 = 0
        /\ MinCount # MaxOfCounts =>
             /\ \A i \in DOMAIN legend_sizes :
                    \E h \in LegendPoints : IsNearestTen(legend_sizes[i], h)
             /\ \A h \in LegendPoints :
                    \E i \in DOMAIN legend_sizes : IsNearestTen(legend_sizes[i], h)

\* Counts 2 and 12: the three candidates 2, 7, 12 round to 0, 10, 10 and the
\* legend keeps two entries.
C5_Witness ==
    /\ pc = "legend"
    /\ MinCount # MaxOfCounts
    /\ Len(legend_sizes) = 2
    /\ legend_sizes[1] = 0

\* C6 as stated: when all retained rows have the same count, the legend has
\* exactly one entry and that entry is equal to that count value.
C6_SingleEntryEqualsCount ==
    (pc = "legend" /\ MinCount = MaxOfCounts) => legend_sizes = <<MinCount>>

\* C6 amended: when all retained rows have the same count, the legend has
\* exactly one entry, and that entry is the count rounded to the nearest
\* multiple of ten, a count ending in 5 going to the even multiple of ten.
C6_SingleEntryIsRoundedCount ==
    (pc = "legend" /\ MinCount = MaxOfCounts) =>
        /\ Len(legend_sizes) = 1
        /\ legend_sizes[1] % 10 = 0
        /\ Abs(legend_sizes[1] - MinCount) <= 5
        /\ Abs(legend_sizes[1] - MinCount) = 5 => (legend_sizes[1] \div 10) % 2 = 0

\* Three rows of count 12: the one legend entry is 10, not 12.
C6_Witness ==
    /\ pc = "legend"
    /\ counts = <<12, 12, 12>>
    /\ legend_sizes = <<10>>

\* C7 as stated: counts 5, 50, 95 give the legend 10, 50, 90 and counts
\* 12, 12, 12 give the legend 10.
C7_TieExampleAsStated ==
    pc = "legend" =>
        /\ counts = <<5, 50, 95>> => legend_sizes = <<10, 50, 90>>
        /\ counts = <<12, 12, 12>> => legend_sizes = <<10>>

\* C7 amended: counts 5, 50, 95 give the legend 0, 50, 100 (0.5 and 9.5 round
\* to the even 0 and 10) and counts 12, 12, 12 give the legend 10.
C7_TieExampleHalfEven ==
    pc = "legend" =>
        /\ counts = <<5, 50, 95>> => legend_sizes = <<0, 50, 100>>
        /\ counts = <<12, 12, 12>> => legend_sizes = <<10>>

C7_Witness ==
    /\ pc = "legend"
    /\ counts = <<5, 50, 95>>
    /\ Len(legend_sizes) = 3
    /\ legend_sizes[1] < 5 /\ legend_sizes[3] > 95

----------------------------------------------------------------------------
(* Properties of generate_bubble_plot, under Spec *)

\* The input table's cells as numbers, read off the caller's table.
PctOf(i) == df.rows[i].pct.num
SigOf(i) == IF df.rows[i].sig.kind = "text" THEN NaN ELSE df.rows[i].sig.num
CountOf(i) == IF df.rows[i].count.kind = "text" THEN NaN ELSE df.rows[i].count.num

\* rows with term, gene ratio, significance and count all present
CompleteRows ==
    {i \in DOMAIN df.rows :
        ~IsNa(df.rows[i].term) /\ ~IsNa(PctOf(i)) /\ ~IsNa(SigOf(i)) /\ ~IsNa(CountOf(i))}

PositiveSigRows == {i \in CompleteRows : Val(SigOf(i)) > 0}

\* the eligible rows: complete, significance > 0, and <= the cutoff if given
EligibleRows ==
    {i \in PositiveSigRows :
        IsNa(args.sig_cutoff) \/ Val(SigOf(i)) <= Val(args.sig_cutoff)}

PlottedIdx == {out.plotted[i].idx : i \in DOMAIN out.plotted}

\* C1: the call reports the first stage that empties the row set, in the
\* order cleaning, positivity, cutoff (the cutoff failure carrying the cutoff
\* value), and returns a chart in every other case.
C1_FirstEmptyingStageReported ==
    pc = "rendered" =>
        /\ out.status =
              IF CompleteRows = {} THEN "EmptyDataset"
              ELSE IF PositiveSigRows = {} THEN "NonPositiveSignificance"
              ELSE IF EligibleRows = {} THEN "CutoffTooStrict"
              ELSE "chart"
        /\ out.status = "CutoffTooStrict" => out.message = args.sig_cutoff
        /\ (df.rows # << >> /\ \A i \in DOMAIN df.rows : SigOf(i) = Num(0)) =>
              out.status \in {"EmptyDataset", "NonPositiveSignificance"}

\* A table of complete rows, one with an incomplete row beside them, all
\* with significance 0 where present: the positivity failure.
C1_Witness ==
    /\ pc = "rendered"
    /\ out.status = "NonPositiveSignificance"
    /\ Len(df.rows) = 3
    /\ CompleteRows # DOMAIN df.rows
    /\ \A i \in CompleteRows : Val(SigOf(i)) = 0

\* C2: on success the plotted rows are the top_n eligible rows of smallest
\* significance (all of them when fewer), an earlier row being kept over a
\* later one of equal significance.
C2_TopNSmallestStable ==
    (pc = "rendered" /\ out.status = "chart") =>
        LET eligible == EligibleRows
            kept     == PlottedIdx
            left_out == eligible \ kept
        IN  /\ Cardinality(kept) = Len(out.plotted)
            /\ kept \subseteq eligible
            /\ Len(out.plotted) =
                  IF Cardinality(eligible) < args.top_n
                  THEN Cardinality(eligible) ELSE args.top_n
            /\ \A i \in kept : \A j \in left_out :
                  \/ Val(SigOf(i)) < Val(SigOf(j))
                  \/ Val(SigOf(i)) = Val(SigOf(j)) /\ i < j

\* Two rows tie at the cutoff value 0.05 on the selection boundary: the
\* earlier one is plotted, the later one is not.
C2_Witness ==
    /\ pc = "rendered" /\ out.status = "chart"
    /\ args.sig_cutoff = Num(5)
    /\ \E i \in PlottedIdx : \E j \in EligibleRows \ PlottedIdx :
          SigOf(i) = Num(5) /\ SigOf(j) = Num(5) /\ i < j

\* s <= t in lexicographic order of character codes
LexLeq(s, t) ==
    \/ Len(s) <= Len(t) /\ \A i \in 1..Len(s) : s[i] = t[i]
    \/ \E k \in 1..Len(s) :
          /\ k <= Len(t)
          /\ \A i \in 1..(k - 1) : s[i] = t[i]
          /\ CharCode(s[k]) < CharCode(t[k])

\* position of the first plotted row whose term is t
FirstPlotted(t) == Min({i \in DOMAIN out.plotted : Val(out.plotted[i].term) = t})

\* C8: the re-ordering by sort_mode neither adds, removes nor changes a
\* retained row and leaves the rows in non-decreasing order of the chosen
\* key; the category axis lists the terms in that order.
C8_SortPermutesAndOrders ==
    (pc = "rendered" /\ out.status = "chart") =>
      LET eligible == EligibleRows
      IN
        /\ Cardinality(PlottedIdx) = Len(out.plotted)
        /\ Len(out.plotted) =
              IF Cardinality(eligible) < args.top_n
              THEN Cardinality(eligible) ELSE args.top_n
        /\ \A i \in DOMAIN out.plotted :
              LET r == out.plotted[i]
              IN  /\ r.idx \in eligible
                  /\ r.term = df.rows[r.idx].term
                  /\ r.Sig_num = SigOf(r.idx)
                  /\ r.Count_num = CountOf(r.idx)
                  /\ r.GeneRatio \in {PctOf(r.idx), Num(Val(PctOf(r.idx)) \div 100)}
        /\ \A i, j \in DOMAIN out.plotted : i < j =>
              LET r == out.plotted[i]
                  q == out.plotted[j]
              IN  /\ args.sort_mode = "GeneRatio" => Val(r.GeneRatio) <= Val(q.GeneRatio)
                  /\ args.sort_mode = "Significance" => Val(r.Sig_num) <= Val(q.Sig_num)
                  /\ args.sort_mode = "Alphabetical" => LexLeq(Val(r.term), Val(q.term))
        /\ Range(out.axis) = {Val(out.plotted[i].term) : i \in DOMAIN out.plotted}
        /\ \A a, b \in DOMAIN out.axis : a < b =>
              FirstPlotted(out.axis[a]) < FirstPlotted(out.axis[b])

\* An alphabetical chart whose first row comes later in the table than its
\* second: "B" is placed before "a".
C8_Witness ==
    /\ pc = "rendered" /\ out.status = "chart"
    /\ args.sort_mode = "Alphabetical"
    /\ Len(out.plotted) = 2
    /\ out.plotted[1].idx > out.plotted[2].idx
    /\ out.axis = << <<"B">>, <<"a">> >>

\* C9: a call never changes the caller's table, whatever its outcome: same
\* rows, row order, columns and cells.
C9_CallerTableUntouched == [][pc' = "rendered" => df' = df]_vars

\* A call that returned a chart for a table of three rows.
C9_Witness ==
    /\ pc = "rendered" /\ out.status = "chart"
    /\ Len(df.rows) = 3
    /\ df.columns = InputColumns

\* every non-missing value of the percent column lies in [0, 100]
PctColumnInDomain ==
    \A i \in DOMAIN df.rows :
        ~IsNa(PctOf(i)) => Val(PctOf(i)) >= 0 /\ Val(PctOf(i)) <= 100000

PctNonMissing == {i \in DOMAIN df.rows : ~IsNa(PctOf(i))}
PctAboveOne == {i \in PctNonMissing : Val(PctOf(i)) > 1000}

AllPlottedRatiosInUnit ==
    \A i \in DOMAIN out.plotted :
        Val(out.plotted[i].GeneRatio) >= 0 /\ Val(out.plotted[i].GeneRatio) <= 1000

\* C10 as stated: every plotted gene ratio lies in [0, 1] whenever the
\* non-missing values of the input column all lie in [0, 100].
C10_RatioInUnitInterval ==
    (pc = "rendered" /\ out.status = "chart" /\ PctColumnInDomain) =>
        AllPlottedRatiosInUnit

\* C10 amended: every plotted gene ratio lies in [0, 1] whenever the
\* non-missing values of the input column all lie in [0, 100] and either none
\* of them exceeds 1 or strictly more than half of them exceed 1.
C10_RatioInUnitIntervalUnmixed ==
    (/\ pc = "rendered" /\ out.status = "chart" /\ PctColumnInDomain
     /\ \/ PctAboveOne = {}
        \/ 2 * Cardinality(PctAboveOne) > Cardinality(PctNonMissing)) =>
        AllPlottedRatiosInUnit

\* A percentage column (50, 50 and 0.5): the plotted ratios are 0.5 and 0.005.
C10_Witness ==
    /\ pc = "rendered" /\ out.status = "chart"
    /\ Cardinality(PctAboveOne) = 2 /\ Cardinality(PctNonMissing) = 3
    /\ \E i, j \in DOMAIN out.plotted :
          out.plotted[i].GeneRatio = Num(500) /\ out.plotted[j].GeneRatio = Num(5)

====
